---- MODULE Spec2Model ----
(***************************************************************************)
(* Draggable radial menu: the pointer/touch drag controller (useDraggable),*)
(* the menu controller (RadialMenu) and the orbit placement engine         *)
(* (useRepulsionAndOrbit).                                                 *)
(*                                                                         *)
(* Two generations of the drag hook and of the component are in the        *)
(* repository; `revision` selects which one a behaviour runs:              *)
(*   "unified"   useDraggable with mouse+touch (handleInteractionStart)    *)
(*               and RadialMenu with the toggle lock;                      *)
(*   "mouseOnly" hooks/useDraggable.ts (handleMouseDown) and               *)
(*               components/RadialMenu.tsx (no toggle lock).               *)
(*                                                                         *)
(* React is modelled with synchronous commits: the state updates an event  *)
(* handler queues are committed, and the effects that depend on them are   *)
(* run, before the next event is delivered.  Every action is therefore one *)
(* event: its handlers, the commit and the effects.                        *)
(***************************************************************************)
EXTENDS Integers, Sequences, FiniteSets, TLC

-----------------------------------------------------------------------------
(* Program constants *)

DEFAULT_MAIN_BUTTON_SIZE == 56
DEFAULT_DRAG_THRESHOLD == 5
DEFAULT_ORBIT_RADIUS == 100
DEFAULT_ITEM_SIZE == 40

(* Bounds of the model *)

\* number of menu items of the menu driven by the drag specification
NumMenuItems == 2
\* number of simultaneous touch points the environment produces
MaxFingers == 2

Revisions == {"unified", "mouseOnly"}

\* window sizes the environment resizes between: one smaller than the main
\* button, the others leaving it a few pixels of travel
Viewports ==
    { [width |-> 40, height |-> 40],
      [width |-> 60, height |-> 60] }

\* the caller-supplied orbit radius and item size of the menu driven by the
\* drag specification, small enough for items to fit the windows above
DragOrbitRadius == 20
DragItemSize == 8

\* the places the pointer (or the first finger) is reported at: one outside
\* every window, and three on the main button, of which the second is
\* exactly 5 px (the drag threshold) from the first and the third is
\* farther than that from the first and 1 px from the second
PointerTargets ==
    { [x |-> 28, y |-> 28], [x |-> 31, y |-> 32], [x |-> 32, y |-> 32],
      [x |-> 400, y |-> 300] }

-----------------------------------------------------------------------------
(* Helpers *)

Max(a, b) == IF a >= b THEN a ELSE b
Min(a, b) == IF a <= b THEN a ELSE b

\* ClampAxis without its upper limit
ClampAxisNoUpperLimit(v, limit) == Max(0, v)

\* Math.max(0, Math.min(v, limit))
ClampAxis(v, limit) == Max(0, Min(v, limit))

\* the two clamped axes of handleInteractionMove / handleResize
ClampPosition(p, vp, size) ==
    [x |-> ClampAxis(p.x, vp.width - size),
     y |-> ClampAxis(p.y, vp.height - size)]

\* BeyondThreshold with >= for >
AtOrBeyondThreshold(c, origin, threshold) ==
    LET deltaX == c.x - origin.x
        deltaY == c.y - origin.y
    IN  deltaX * deltaX + deltaY * deltaY >= threshold * threshold

\* Math.sqrt(dx*dx + dy*dy) > dragThreshold, on integer coordinates
BeyondThreshold(c, origin, threshold) ==
    LET deltaX == c.x - origin.x
        deltaY == c.y - origin.y
    IN  deltaX * deltaX + deltaY * deltaY > threshold * threshold

\* the square of the distance between two points
SquaredDistance(c, origin) ==
    (c.x - origin.x) * (c.x - origin.x) + (c.y - origin.y) * (c.y - origin.y)

\* the window listeners the listener effect adds while isDragging
ListenerTypes(rev) ==
    IF rev = "unified"
    THEN {"mousemove", "mouseup", "touchmove", "touchend"}
    ELSE {"mousemove", "mouseup"}

\* the listener effect: cleanup removes all, the body adds them if isDragging
ListenerEffect(rev, dragging) == IF dragging THEN ListenerTypes(rev) ELSE {}

\* the initial state of useDraggable, before the mount effects
InitialPosition(vp, size) ==
    [x |-> (vp.width \div 2) - (size \div 2),
     y |-> (vp.height \div 2) - (size \div 2)]

\* the main button's client rectangle holds the point
OnMainButton(c, pos, size) ==
    /\ pos.x <= c.x /\ c.x < pos.x + size
    /\ pos.y <= c.y /\ c.y < pos.y + size

\* the state of a useDraggable hook after mount, at a position
MountedHook(pos) ==
    [position |-> pos,
     isDragging |-> FALSE,
     hasMovedBeyondThreshold |-> FALSE,
     dragOffset |-> [x |-> 0, y |-> 0],
     interactionStartScreenPosition |-> << >>,
     isDraggingRef |-> FALSE,
     listeners |-> {}]

-----------------------------------------------------------------------------
(* Orbit placement engine: useRepulsionAndOrbit.                           *)
(*                                                                         *)
(* Angles are exact rationals.  The arcs are kept in sample units (one     *)
(* unit is angleSampleStep = 2*PI/180); the angles of one call for N items *)
(* are kept in "slot units" of angleSampleStep / (2*N), in which every     *)
(* item target (i + 0.5) * totalSafeAngleLength / N is an integer.         *)
(* Math.cos / Math.sin are the table CosTable, in ten-thousandths.         *)
(* The two generations of the hook are told apart by `rev`:                *)
(* "unified" is the one with VERY_SMALL_NUMBER, "mouseOnly" the other.     *)

numAngleSamples == 180

CosScale == 10000

CosTable ==
    << 10000, 9994, 9976, 9945, 9903, 9848, 9781, 9703, 9613, 9511,
       9397, 9272, 9135, 8988, 8829, 8660, 8480, 8290, 8090, 7880,
       7660, 7431, 7193, 6947, 6691, 6428, 6157, 5878, 5592, 5299,
       5000, 4695, 4384, 4067, 3746, 3420, 3090, 2756, 2419, 2079,
       1736, 1392, 1045, 698, 349, 0, -349, -698, -1045, -1392,
       -1736, -2079, -2419, -2756, -3090, -3420, -3746, -4067, -4384, -4695,
       -5000, -5299, -5592, -5878, -6157, -6428, -6691, -6947, -7193, -7431,
       -7660, -7880, -8090, -8290, -8480, -8660, -8829, -8988, -9135, -9272,
       -9397, -9511, -9613, -9703, -9781, -9848, -9903, -9945, -9976, -9994,
       -10000, -9994, -9976, -9945, -9903, -9848, -9781, -9703, -9613, -9511,
       -9397, -9272, -9135, -8988, -8829, -8660, -8480, -8290, -8090, -7880,
       -7660, -7431, -7193, -6947, -6691, -6428, -6157, -5878, -5592, -5299,
       -5000, -4695, -4384, -4067, -3746, -3420, -3090, -2756, -2419, -2079,
       -1736, -1392, -1045, -698, -349, 0, 349, 698, 1045, 1392,
       1736, 2079, 2419, 2756, 3090, 3420, 3746, 4067, 4384, 4695,
       5000, 5299, 5592, 5878, 6157, 6428, 6691, 6947, 7193, 7431,
       7660, 7880, 8090, 8290, 8480, 8660, 8829, 8988, 9135, 9272,
       9397, 9511, 9613, 9703, 9781, 9848, 9903, 9945, 9976, 9994 >>

\* Math.cos(i * angleSampleStep) and Math.sin(i * angleSampleStep), times CosScale
CosSample(i) == CosTable[(i % numAngleSamples) + 1]
SinSample(i) == CosSample(i + 135)

\* angleSampleStep in micro-radians, and the float tolerances in micro-radians
StepMicro == 34907
VERY_SMALL_NUMBER == 10
BoundaryEpsilon == 100
MinSafeLength == 1000

\* isAngleSafe at sample i; all lengths doubled so that the halves are integers
isAngleSafe(i, center, radius, itemDiameter, mainButtonSize, vp) ==
    LET itemAbsX2 == (2 * center.x + mainButtonSize) * CosScale
                        + 2 * radius * CosSample(i)
        itemAbsY2 == (2 * center.y + mainButtonSize) * CosScale
                        + 2 * radius * SinSample(i)
        item2 == itemDiameter * CosScale
    IN  /\ itemAbsX2 - item2 >= 0
        /\ itemAbsX2 + item2 <= 2 * vp.width * CosScale
        /\ itemAbsY2 - item2 >= 0
        /\ itemAbsY2 + item2 <= 2 * vp.height * CosScale

\* safeAnglesInfo[i].safe for i in 0..179
safeAnglesInfo(center, radius, itemDiameter, mainButtonSize, vp) ==
    [i \in 0..(numAngleSamples - 1) |->
        isAngleSafe(i, center, radius, itemDiameter, mainButtonSize, vp)]

\* ArcStep reading an unsafe sample as safe and a safe one as unsafe
ArcStepInverted(safe, i, st) ==
    LET isCurrentSampleSafe == IF i < numAngleSamples THEN ~safe[i] ELSE FALSE
    IN  IF isCurrentSampleSafe /\ st.cur = -1
        THEN [cur |-> i, arcs |-> st.arcs]
        ELSE IF ~isCurrentSampleSafe /\ st.cur # -1
        THEN [cur |-> -1,
              arcs |-> IF i > st.cur
                       THEN Append(st.arcs, [start |-> st.cur, end |-> i,
                                             length |-> i - st.cur])
                       ELSE st.arcs]
        ELSE st

\* one iteration of the arc-building loop at index i; st.cur is
\* currentArcStartAngle (-1 is null), st.arcs is safeArcs so far
ArcStep(safe, i, st) ==
    LET isCurrentSampleSafe == IF i < numAngleSamples THEN safe[i] ELSE FALSE
    IN  IF isCurrentSampleSafe /\ st.cur = -1
        THEN [cur |-> i, arcs |-> st.arcs]
        ELSE IF ~isCurrentSampleSafe /\ st.cur # -1
        THEN [cur |-> -1,
              arcs |-> IF i > st.cur
                       THEN Append(st.arcs, [start |-> st.cur, end |-> i,
                                             length |-> i - st.cur])
                       ELSE st.arcs]
        ELSE st

\* the iterations lo..hi of the loop, in order (split in halves to keep the
\* evaluation shallow)
RECURSIVE ArcLoop(_, _, _, _)
ArcLoop(safe, lo, hi, st) ==
    IF lo = hi THEN ArcStep(safe, lo, st)
    ELSE LET mid == (lo + hi) \div 2
             firstHalf == ArcLoop(safe, lo, mid, st)
         IN  IF firstHalf.cur >= -1
             THEN ArcLoop(safe, mid + 1, hi, firstHalf)
             ELSE firstHalf

\* the arc-building loop, i = 0..numAngleSamples
ArcWalk(safe) ==
    ArcLoop(safe, 0, numAngleSamples, [cur |-> -1, arcs |-> << >>]).arcs

\* safeArcs.findIndex of the arc that starts at 0, 0 when nothing is found
firstArcIndex(arcs) ==
    LET hits == {k \in 1..Len(arcs) : arcs[k].start = 0}
    IN  IF hits = {} THEN 0 ELSE CHOOSE k \in hits : \A j \in hits : k <= j

\* safeArcs.findIndex of the arc that ends at 2*PI, 0 when nothing is found
lastArcIndex(arcs) ==
    LET hits == {k \in 1..Len(arcs) : arcs[k].end = numAngleSamples}
    IN  IF hits = {} THEN 0 ELSE CHOOSE k \in hits : \A j \in hits : k <= j

\* Array.prototype.filter on the index: the elements whose index is not dropped
RECURSIVE FilterIndex(_, _, _)
FilterIndex(s, k, dropped) ==
    IF k > Len(s) THEN << >>
    ELSE (IF k \in dropped THEN << >> ELSE << s[k] >>)
            \o FilterIndex(s, k + 1, dropped)

\* the arcs left as the loop found them, without the wrap-around merge
MergeWrapSkipped(rev, safe, arcs) == arcs

\* the wrap-around merge of the arc starting at 0 with the arc ending at 2*PI
MergeWrap(rev, safe, arcs) ==
    IF safe[0] /\ safe[numAngleSamples - 1] /\ Len(arcs) > 1
    THEN IF rev = "unified"
         THEN LET first == firstArcIndex(arcs)
                  last == lastArcIndex(arcs)
              IN  IF first # 0 /\ last # 0 /\ first # last
                  THEN Append(FilterIndex(arcs, 1, {first, last}),
                              [start |-> arcs[last].start,
                               end |-> arcs[first].end + numAngleSamples,
                               length |-> arcs[last].length
                                            + arcs[first].length])
                  ELSE arcs
         ELSE LET firstArc == arcs[1]
                  lastArc == arcs[Len(arcs)]
              IN  Append(SubSeq(arcs, 2, Len(arcs) - 1),
                         [start |-> lastArc.start,
                          end |-> firstArc.end + numAngleSamples,
                          length |-> lastArc.length + firstArc.length])
    ELSE arcs

\* safeArcs after discovery and merge
safeArcs(rev, safe) == MergeWrap(rev, safe, ArcWalk(safe))

\* the sum of the arc lengths with every arc counted twice
RECURSIVE totalSafeAngleLengthDoubled(_)
totalSafeAngleLengthDoubled(arcs) ==
    IF arcs = << >> THEN 0
    ELSE 2 * Head(arcs).length + totalSafeAngleLengthDoubled(Tail(arcs))

\* safeArcs.reduce((sum, arc) => sum + arc.length, 0)
RECURSIVE totalSafeAngleLength(_)
totalSafeAngleLength(arcs) ==
    IF arcs = << >> THEN 0
    ELSE Head(arcs).length + totalSafeAngleLength(Tail(arcs))

\* Array.prototype.sort with the comparator a.key - b.key: a stable sort of
\* records by the integer field the function key gives
RECURSIVE InsertSorted(_, _, _)
InsertSorted(s, e, key) ==
    IF s = << >> THEN << e >>
    ELSE IF key[e] < key[Head(s)] THEN << e >> \o s
    ELSE << Head(s) >> \o InsertSorted(Tail(s), e, key)

RECURSIVE SortBy(_, _)
SortBy(s, key) ==
    IF s = << >> THEN << >>
    ELSE InsertSorted(SortBy(SubSeq(s, 1, Len(s) - 1), key), s[Len(s)], key)

\* safeArcs.sort((a, b) => a.start - b.start)
SortArcs(arcs) ==
    SortBy(arcs, [a \in {arcs[k] : k \in 1..Len(arcs)} |-> a.start])

\* the positions left in item order
SortPositionsSkipped(ps) == ps

\* positions.sort((a, b) => a.angle - b.angle)
SortPositions(ps) ==
    SortBy(ps, [q \in {ps[k] : k \in 1..Len(ps)} |-> q.angle])

\* the target measured from the start of the first arc, whatever its length
FindArcInFirstArc(rev, arcs, k, acc, target, N) ==
    (arcs[1].start * 2 * N + target) % (numAngleSamples * 2 * N)

\* the walk of the sorted arcs for one item: the item's final angle in slot
\* units, or -1 when no arc claims the target.  acc and target are in slot
\* units; a comparison with a tolerance is made in micro-radians.
RECURSIVE FindArc(_, _, _, _, _, _)
FindArc(rev, arcs, k, acc, target, N) ==
    IF k > Len(arcs) THEN -1
    ELSE LET arc == arcs[k]
             arcLength == arc.length * 2 * N
             angleWithinArcRaw == target - acc
             lowOk == IF rev = "unified"
                      THEN angleWithinArcRaw * StepMicro
                              >= 0 - VERY_SMALL_NUMBER * 2 * N
                      ELSE angleWithinArcRaw >= 0
             highOk == IF rev = "unified"
                       THEN (angleWithinArcRaw - arcLength) * StepMicro
                               < VERY_SMALL_NUMBER * 2 * N
                       ELSE (angleWithinArcRaw - arcLength) * StepMicro
                               < BoundaryEpsilon * 2 * N
             angleWithinArc == IF rev = "unified"
                               THEN Max(0, Min(angleWithinArcRaw, arcLength))
                               ELSE angleWithinArcRaw
         IN  IF lowOk /\ highOk
             THEN (arc.start * 2 * N + angleWithinArc)
                      % (numAngleSamples * 2 * N)
             ELSE FindArc(rev, arcs, k + 1, acc + arcLength, target, N)

\* the angle of an item no arc claimed
fallbackAngle(rev, arcs, N) ==
    IF rev = "unified"
    THEN (arcs[1].start * 2 * N) % (numAngleSamples * 2 * N)
    ELSE (arcs[1].start * 2 * N + arcs[1].length * N)
             % (numAngleSamples * 2 * N)

\* newPositions with the item target at the start of its slot, not its middle
newPositionsAtSlotStart(rev, arcs, total, N) ==
    [k \in 1..N |->
        LET finalAngle == FindArc(rev, arcs, 1, 0, 2 * (k - 1) * total, N)
        IN  [angle |-> IF finalAngle = -1
                       THEN fallbackAngle(rev, arcs, N) ELSE finalAngle,
             index |-> k - 1]]

\* the distribution loop: one position per item index, in index order.
\* x and y of an ItemPosition are orbitRadius * cos/sin of its angle and are
\* not kept; index records the item index the loop computed the angle for.
newPositions(rev, arcs, total, N) ==
    [k \in 1..N |->
        LET finalAngle == FindArc(rev, arcs, 1, 0, (2 * (k - 1) + 1) * total, N)
        IN  [angle |-> IF finalAngle = -1
                       THEN fallbackAngle(rev, arcs, N) ELSE finalAngle,
             index |-> k - 1]]

\* the items stacked at the middle of the first arc (negligible safe length)
stackedPositions(arcs, N) ==
    [k \in 1..N |->
        [angle |-> (arcs[1].start * 2 * N + arcs[1].length * N)
                       % (numAngleSamples * 2 * N),
         index |-> k - 1]]

\* calculatedPositions without the test of isOpen
calculatedPositionsIgnoringOpen(rev, open, center, N, radius, itemDiameter, mainButtonSize, vp) ==
    IF N = 0 \/ radius <= 0 THEN << >>
    ELSE LET safe == safeAnglesInfo(center, radius, itemDiameter, mainButtonSize, vp)
             arcs == safeArcs(rev, safe)
             total == totalSafeAngleLength(arcs)
         IN  IF Len(arcs) = 0 THEN << >>
             ELSE IF rev = "unified" /\ total * StepMicro < VERY_SMALL_NUMBER
             THEN SortPositions(stackedPositions(arcs, N))
             ELSE IF rev = "mouseOnly" /\ total * StepMicro < MinSafeLength
             THEN << >>
             ELSE SortPositions(newPositions(rev, SortArcs(arcs), total, N))

\* the useMemo body of useRepulsionAndOrbit
calculatedPositions(rev, open, center, N, radius, itemDiameter, mainButtonSize, vp) ==
    IF ~open \/ N = 0 \/ radius <= 0 THEN << >>
    ELSE LET safe == safeAnglesInfo(center, radius, itemDiameter, mainButtonSize, vp)
             arcs == safeArcs(rev, safe)
             total == totalSafeAngleLength(arcs)
         IN  IF Len(arcs) = 0 THEN << >>
             ELSE IF rev = "unified" /\ total * StepMicro < VERY_SMALL_NUMBER
             THEN SortPositions(stackedPositions(arcs, N))
             ELSE IF rev = "mouseOnly" /\ total * StepMicro < MinSafeLength
             THEN << >>
             ELSE SortPositions(newPositions(rev, SortArcs(arcs), total, N))

-----------------------------------------------------------------------------
VARIABLES
    revision,                        \* which generation of hook/component
    viewport,                        \* window.innerWidth / innerHeight
    position,                        \* useDraggable: position
    isDragging,                      \* useDraggable: isDragging
    hasMovedBeyondThreshold,         \* useDraggable: hasMovedBeyondThreshold
    dragOffset,                      \* useDraggable: dragOffset
    interactionStartScreenPosition,  \* useDraggable: <<>> is null
    isDraggingRef,                   \* useDraggable: isDraggingRef.current
    listeners,                       \* event types with a window listener
    registrations,                   \* window listeners the listener effect
                                     \*   has added and not removed, per type
    closure,                         \* the state the attached handlers closed
                                     \*   over, of the listener effect's last run
    instances,                       \* further useDraggable hooks, mounted
                                     \*   side by side: one given mouse events
                                     \*   and one given touch events
    isOpen,                          \* RadialMenu: isOpen
    isToggleLocked,                  \* RadialMenu: isToggleLocked
    lockTimers,                      \* pending setTimeout callbacks
    numItems,                        \* RadialMenu: items.length
    orbitRadius,                     \* RadialMenu: orbitRadius
    itemSize,                        \* RadialMenu: itemSize
    itemPositions,                   \* useRepulsionAndOrbit: itemPositions
    invoked,                         \* item actions called by the last event
    pointer,                         \* environment: where the pointer / first
                                     \*   touch was at the last event a
                                     \*   handler read coordinates from
    fingers,                         \* environment: touch points down that
                                     \*   began on the main button
    lastEvent,                       \* history: the event of the last step
    before,                          \* history: isOpen, isDragging and
                                     \*   isToggleLocked before the last step
    exceeded,                        \* history: a move of this interaction
                                     \*   was farther than the threshold
    pressPosition                    \* history: where the control was at the
                                     \*   last accepted press

vars == << revision, viewport, position, isDragging, hasMovedBeyondThreshold,
           dragOffset, interactionStartScreenPosition, isDraggingRef,
           listeners, registrations, closure, instances, isOpen, isToggleLocked, lockTimers,
           numItems,
           orbitRadius, itemSize, itemPositions, invoked, pointer, fingers,
           lastEvent, before, exceeded, pressPosition >>

hookVars == << position, isDragging, hasMovedBeyondThreshold, dragOffset,
               interactionStartScreenPosition, isDraggingRef, listeners >>
menuVars == << isOpen, isToggleLocked, lockTimers >>
envVars == << pointer, fingers >>
propVars == << revision, numItems, orbitRadius, itemSize >>

-----------------------------------------------------------------------------
(* The drag controller and the menu controller: one action per event.      *)

\* the places the clamp leaves the main button at in a window
ClampedPlaces(vp) ==
    {[x |-> a, y |-> b] :
        a \in 0..Max(0, vp.width - DEFAULT_MAIN_BUTTON_SIZE),
        b \in 0..Max(0, vp.height - DEFAULT_MAIN_BUTTON_SIZE)}

\* useMemo of useRepulsionAndOrbit: the value computed for the open menu of
\* the drag specification, kept per dependency list
MemoizedPositions ==
    {[rev |-> rev, vp |-> vp, center |-> c,
      value |-> calculatedPositions(rev, TRUE, c, NumMenuItems,
                                    DragOrbitRadius, DragItemSize,
                                    DEFAULT_MAIN_BUTTON_SIZE, vp)] :
        rev \in Revisions, vp \in Viewports,
        c \in UNION {ClampedPlaces(w) : w \in Viewports}}

\* what useRepulsionAndOrbit returns once the commit and its effect have run
Placement(open, center, vp) ==
    IF /\ open /\ numItems = NumMenuItems /\ orbitRadius = DragOrbitRadius
       /\ itemSize = DragItemSize
       /\ \E m \in MemoizedPositions :
              m.rev = revision /\ m.vp = vp /\ m.center = center
    THEN (CHOOSE m \in MemoizedPositions :
              m.rev = revision /\ m.vp = vp /\ m.center = center).value
    ELSE calculatedPositions(revision, open, center, numItems, orbitRadius,
                             itemSize, DEFAULT_MAIN_BUTTON_SIZE, vp)

Init ==
    /\ revision \in Revisions
    /\ viewport \in Viewports
    /\ position = ClampPosition(
                      InitialPosition(viewport, DEFAULT_MAIN_BUTTON_SIZE),
                      viewport, DEFAULT_MAIN_BUTTON_SIZE)
    /\ isDragging = FALSE
    /\ hasMovedBeyondThreshold = FALSE
    /\ dragOffset = [x |-> 0, y |-> 0]
    /\ interactionStartScreenPosition = << >>
    /\ isDraggingRef = FALSE
    /\ listeners = {}
    /\ registrations = [t \in ListenerTypes("unified") |-> 0]
    /\ closure = [dragOffset |-> [x |-> 0, y |-> 0],
                  interactionStartScreenPosition |-> << >>,
                  hasMovedBeyondThreshold |-> FALSE]
    /\ instances = << >>
    /\ isOpen = FALSE
    /\ isToggleLocked = FALSE
    /\ lockTimers = 0
    /\ numItems = NumMenuItems
    /\ orbitRadius = DragOrbitRadius
    /\ itemSize = DragItemSize
    /\ itemPositions = << >>
    /\ invoked = << >>
    /\ pointer = [x |-> 0, y |-> 0]
    /\ fingers = 0
    /\ lastEvent = "mount"
    /\ before = [isOpen |-> FALSE, isDragging |-> FALSE,
                 isToggleLocked |-> FALSE]
    /\ exceeded = FALSE
    /\ pressPosition = << >>

\* an interaction start that records no offset of the pointer into the
\* control
InteractionStartWithoutOffset(coords) ==
    /\ dragOffset' = [x |-> 0, y |-> 0]
    /\ interactionStartScreenPosition' = << coords >>
    /\ hasMovedBeyondThreshold' = FALSE
    /\ isDragging' = TRUE
    /\ isDraggingRef' = TRUE
    /\ listeners' = ListenerEffect(revision, TRUE)
    /\ position' = position

\* an interaction start that puts the middle of the control under the
\* pointer
InteractionStartSnapping(coords) ==
    /\ dragOffset' = [x |-> coords.x - position.x, y |-> coords.y - position.y]
    /\ interactionStartScreenPosition' = << coords >>
    /\ hasMovedBeyondThreshold' = FALSE
    /\ isDragging' = TRUE
    /\ isDraggingRef' = TRUE
    /\ listeners' = ListenerEffect(revision, TRUE)
    /\ position' = ClampPosition(
                       [x |-> coords.x - (DEFAULT_MAIN_BUTTON_SIZE \div 2),
                        y |-> coords.y - (DEFAULT_MAIN_BUTTON_SIZE \div 2)],
                       viewport, DEFAULT_MAIN_BUTTON_SIZE)

\* handleInteractionStart / handleMouseDown past the button test, with the
\* commit: the ref-sync effect and the listener effect run
InteractionStart(coords) ==
    /\ dragOffset' = [x |-> coords.x - position.x, y |-> coords.y - position.y]
    /\ interactionStartScreenPosition' = << coords >>
    /\ hasMovedBeyondThreshold' = FALSE
    /\ isDragging' = TRUE
    /\ isDraggingRef' = TRUE
    /\ listeners' = ListenerEffect(revision, TRUE)
    /\ position' = position

\* handleInteractionMove moving the control only once the threshold is passed
handleInteractionMoveAfterThreshold(coords) ==
    IF ~isDraggingRef
    THEN UNCHANGED hookVars
    ELSE LET passed ==
                 \/ hasMovedBeyondThreshold
                 \/ /\ interactionStartScreenPosition # << >>
                    /\ BeyondThreshold(coords, interactionStartScreenPosition[1],
                                       DEFAULT_DRAG_THRESHOLD)
         IN  /\ hasMovedBeyondThreshold' = passed
             /\ position' = IF passed
                            THEN ClampPosition(
                                     [x |-> coords.x - dragOffset.x,
                                      y |-> coords.y - dragOffset.y],
                                     viewport, DEFAULT_MAIN_BUTTON_SIZE)
                            ELSE position
             /\ listeners' = ListenerEffect(revision, isDragging)
             /\ UNCHANGED << isDragging, dragOffset,
                             interactionStartScreenPosition, isDraggingRef >>

\* handleInteractionMove with the flag following the current distance
handleInteractionMoveUnlatched(coords) ==
    IF ~isDraggingRef
    THEN UNCHANGED hookVars
    ELSE /\ hasMovedBeyondThreshold' =
                (/\ interactionStartScreenPosition # << >>
                 /\ BeyondThreshold(coords, interactionStartScreenPosition[1],
                                    DEFAULT_DRAG_THRESHOLD))
         /\ position' = ClampPosition(
                            [x |-> coords.x - dragOffset.x,
                             y |-> coords.y - dragOffset.y],
                            viewport, DEFAULT_MAIN_BUTTON_SIZE)
         /\ listeners' = ListenerEffect(revision, isDragging)
         /\ UNCHANGED << isDragging, dragOffset,
                         interactionStartScreenPosition, isDraggingRef >>

\* handleInteractionMove / handleMouseMove, with the commit
handleInteractionMove(coords) ==
    IF ~isDraggingRef
    THEN UNCHANGED hookVars
    ELSE /\ hasMovedBeyondThreshold' =
                IF interactionStartScreenPosition # << >>
                   /\ ~hasMovedBeyondThreshold
                   /\ BeyondThreshold(coords, interactionStartScreenPosition[1],
                                      DEFAULT_DRAG_THRESHOLD)
                THEN TRUE
                ELSE hasMovedBeyondThreshold
         /\ position' = ClampPosition(
                            [x |-> coords.x - dragOffset.x,
                             y |-> coords.y - dragOffset.y],
                            viewport, DEFAULT_MAIN_BUTTON_SIZE)
         /\ listeners' = ListenerEffect(revision, isDragging)
         /\ UNCHANGED << isDragging, dragOffset,
                         interactionStartScreenPosition, isDraggingRef >>

\* handleInteractionEnd that also resets hasMovedBeyondThreshold
handleInteractionEndResetting ==
    /\ isDragging' = FALSE
    /\ isDraggingRef' = FALSE
    /\ hasMovedBeyondThreshold' = FALSE
    /\ listeners' = ListenerEffect(revision, FALSE)
    /\ UNCHANGED << position, dragOffset, interactionStartScreenPosition >>

\* handleInteractionEnd that leaves isDragging set
handleInteractionEndKeepingDrag ==
    /\ isDragging' = isDragging
    /\ isDraggingRef' = isDraggingRef
    /\ listeners' = ListenerEffect(revision, isDragging)
    /\ UNCHANGED << position, hasMovedBeyondThreshold, dragOffset,
                    interactionStartScreenPosition >>

\* handleInteractionEnd / handleMouseUp, with the commit
handleInteractionEnd ==
    /\ isDragging' = FALSE
    /\ isDraggingRef' = FALSE
    /\ listeners' = ListenerEffect(revision, FALSE)
    /\ UNCHANGED << position, hasMovedBeyondThreshold, dragOffset,
                    interactionStartScreenPosition >>

\* handleMainButtonRelease without the test of hasMovedBeyondThreshold
handleMainButtonReleaseIgnoringDrag ==
    IF revision = "unified"
    THEN IF isToggleLocked
         THEN UNCHANGED menuVars
         ELSE /\ isOpen' = ~isOpen
              /\ isToggleLocked' = TRUE
              /\ lockTimers' = lockTimers + 1
    ELSE /\ isOpen' = ~isOpen
         /\ UNCHANGED << isToggleLocked, lockTimers >>

\* handleMainButtonRelease without the test of isToggleLocked
handleMainButtonReleaseIgnoringLock ==
    IF revision = "unified"
    THEN IF ~hasMovedBeyondThreshold
         THEN /\ isOpen' = ~isOpen
              /\ isToggleLocked' = TRUE
              /\ lockTimers' = lockTimers + 1
         ELSE UNCHANGED menuVars
    ELSE /\ isOpen' = IF ~hasMovedBeyondThreshold THEN ~isOpen ELSE isOpen
         /\ UNCHANGED << isToggleLocked, lockTimers >>

\* handleMainButtonRelease / handleMainButtonMouseUp
handleMainButtonRelease ==
    IF revision = "unified"
    THEN IF isToggleLocked
         THEN UNCHANGED menuVars
         ELSE IF ~hasMovedBeyondThreshold
         THEN /\ isOpen' = ~isOpen
              /\ isToggleLocked' = TRUE
              /\ lockTimers' = lockTimers + 1
         ELSE UNCHANGED menuVars
    ELSE /\ isOpen' = IF ~hasMovedBeyondThreshold THEN ~isOpen ELSE isOpen
         /\ UNCHANGED << isToggleLocked, lockTimers >>

\* where a press on the main button can land: anywhere on it when no move
\* listener follows the pointer, else where the pointer is
PressPoints ==
    {c \in (IF listeners = {} THEN PointerTargets ELSE {pointer}) :
        OnMainButton(c, position, DEFAULT_MAIN_BUTTON_SIZE)}

\* where a move takes the pointer
MoveTargets == PointerTargets

\* the listener effect without its cleanup
ListenerRegistrationsWithoutCleanup(old, rev, dragging) ==
    [t \in DOMAIN old |->
        old[t] + (IF dragging /\ t \in ListenerTypes(rev) THEN 1 ELSE 0)]

\* one run of the listener effect on the window's listener list: the cleanup
\* of the previous run removes the listeners that run added, then the body
\* adds one listener per type if isDragging
ListenerRegistrations(old, rev, dragging) ==
    [t \in DOMAIN old |->
        (old[t] - (IF old[t] > 0 THEN 1 ELSE 0))
            + (IF dragging /\ t \in ListenerTypes(rev) THEN 1 ELSE 0)]

\* the commit's run of the listener effect, when one of its dependencies
\* changed; its handlers close over the state of that render
ListenerCommit ==
    /\ registrations' =
          IF /\ isDragging' = isDragging
             /\ dragOffset' = dragOffset
             /\ interactionStartScreenPosition' = interactionStartScreenPosition
             /\ hasMovedBeyondThreshold' = hasMovedBeyondThreshold
          THEN registrations
          ELSE ListenerRegistrations(registrations, revision, isDragging')
    /\ closure' = [dragOffset |-> dragOffset',
                   interactionStartScreenPosition |->
                       interactionStartScreenPosition',
                   hasMovedBeyondThreshold |-> hasMovedBeyondThreshold']

\* Rendered with viewportSize missing from the useMemo dependencies
RenderedWithoutViewportDependency ==
    /\ itemPositions' =
          IF isOpen' = isOpen /\ position' = position
          THEN itemPositions
          ELSE Placement(isOpen', position', viewport')
    /\ before' = [isOpen |-> isOpen, isDragging |-> isDragging,
                  isToggleLocked |-> isToggleLocked]
    /\ ListenerCommit

\* every event ends with a commit: useMemo of useRepulsionAndOrbit
\* recomputes when one of its dependencies changed and the effect stores the
\* result in itemPositions, and the listener effect of useDraggable runs
Rendered ==
    /\ itemPositions' =
          IF isOpen' = isOpen /\ position' = position /\ viewport' = viewport
          THEN itemPositions
          ELSE Placement(isOpen', position', viewport')
    /\ before' = [isOpen |-> isOpen, isDragging |-> isDragging,
                  isToggleLocked |-> isToggleLocked]
    /\ ListenerCommit

\* mousedown with button 0 on the main button.  The button may go down
\* again without a mouseup in between: a release outside the window is
\* delivered to nobody.
MouseDownPrimary ==
    /\ fingers = 0
    /\ \E c \in PressPoints :
          /\ pointer' = c
          /\ InteractionStart(c)
    /\ exceeded' = FALSE
    /\ lastEvent' = "mousedown" /\ invoked' = << >>
    /\ UNCHANGED << propVars, viewport, menuVars, fingers >>
    /\ Rendered
    /\ UNCHANGED instances
    /\ pressPosition' = << position >>

\* mousedown with another button, without the test of event.button
MouseDownAnyButton ==
    /\ fingers = 0
    /\ \E c \in PressPoints :
          /\ pointer' = c
          /\ InteractionStart(c)
    /\ exceeded' = FALSE
    /\ lastEvent' = "mousedownOther" /\ invoked' = << >>
    /\ UNCHANGED << propVars, viewport, menuVars, fingers >>
    /\ Rendered
    /\ UNCHANGED instances
    /\ pressPosition' = << position >>

\* mousedown with another button on the main button: event.button !== 0
MouseDownOther ==
    /\ fingers = 0
    /\ PressPoints # {}
    /\ lastEvent' = "mousedownOther" /\ invoked' = << >>
    /\ UNCHANGED << propVars, viewport, hookVars, menuVars, envVars, exceeded >>
    /\ Rendered
    /\ UNCHANGED instances
    /\ UNCHANGED pressPosition

\* touchstart on the main button; with a finger already down the event's
\* touches[0] is still the first finger
TouchStart ==
    /\ revision = "unified"
    /\ fingers < MaxFingers
    /\ \E c \in (IF fingers = 0 THEN PressPoints ELSE {pointer}) :
          /\ pointer' = c
          /\ InteractionStart(c)
    /\ fingers' = fingers + 1
    /\ exceeded' = FALSE
    /\ lastEvent' = "touchstart" /\ invoked' = << >>
    /\ UNCHANGED << propVars, viewport, menuVars >>
    /\ Rendered
    /\ UNCHANGED instances
    /\ pressPosition' = << position >>

\* mousemove / touchmove anywhere: the window listener runs when attached,
\* and no handler sees the event otherwise
PointerMove ==
    /\ IF (IF fingers > 0 THEN "touchmove" ELSE "mousemove") \in listeners
       THEN \E c \in MoveTargets :
               /\ pointer' = c
               /\ handleInteractionMove(c)
               /\ exceeded' =
                     (exceeded \/
                        (/\ isDraggingRef
                         /\ interactionStartScreenPosition # << >>
                         /\ SquaredDistance(c, interactionStartScreenPosition[1])
                               > DEFAULT_DRAG_THRESHOLD * DEFAULT_DRAG_THRESHOLD))
               /\ lastEvent' = "move"
       ELSE /\ UNCHANGED << hookVars, pointer, exceeded >>
            /\ lastEvent' = "moveUnheard"
    /\ invoked' = << >>
    /\ UNCHANGED << propVars, viewport, menuVars, fingers >>
    /\ Rendered
    /\ UNCHANGED instances
    /\ UNCHANGED pressPosition

\* mouseup over the main button, of the primary button or of another one
\* (whichever went down, on the button or elsewhere): the button's
\* onMouseUp, then the window's mouseup listener when attached
MouseUpOnButton ==
    /\ fingers = 0
    /\ listeners = {} \/ OnMainButton(pointer, position, DEFAULT_MAIN_BUTTON_SIZE)
    /\ handleMainButtonRelease
    /\ IF "mouseup" \in listeners
       THEN handleInteractionEnd
       ELSE UNCHANGED hookVars
    /\ \E b \in {"mouseupPrimary", "mouseupOther"} : lastEvent' = b
    /\ invoked' = << >>
    /\ UNCHANGED << propVars, viewport, envVars, exceeded >>
    /\ Rendered
    /\ UNCHANGED instances
    /\ UNCHANGED pressPosition

\* mouseup anywhere else: only the window's mouseup listener, when attached
MouseUpOutside ==
    /\ fingers = 0
    /\ listeners = {} \/ ~OnMainButton(pointer, position, DEFAULT_MAIN_BUTTON_SIZE)
    /\ IF "mouseup" \in listeners
       THEN handleInteractionEnd
       ELSE UNCHANGED hookVars
    /\ lastEvent' = "mouseupOutside" /\ invoked' = << >>
    /\ UNCHANGED << propVars, viewport, menuVars, envVars, exceeded >>
    /\ Rendered
    /\ UNCHANGED instances
    /\ UNCHANGED pressPosition

\* touchend of a touch that began on the main button: the button's
\* onTouchEnd, then the window's touchend listener when attached
TouchEnd ==
    /\ fingers > 0
    /\ handleMainButtonRelease
    /\ IF "touchend" \in listeners
       THEN handleInteractionEnd
       ELSE UNCHANGED hookVars
    /\ fingers' = fingers - 1
    /\ lastEvent' = "touchend" /\ invoked' = << >>
    /\ UNCHANGED << propVars, viewport, pointer, exceeded >>
    /\ Rendered
    /\ UNCHANGED instances
    /\ UNCHANGED pressPosition

\* touchcancel: the platform takes the touch away; no handler is registered
TouchCancel ==
    /\ fingers > 0
    /\ fingers' = fingers - 1
    /\ lastEvent' = "touchcancel" /\ invoked' = << >>
    /\ UNCHANGED << propVars, viewport, hookVars, menuVars, pointer, exceeded >>
    /\ Rendered
    /\ UNCHANGED instances
    /\ UNCHANGED pressPosition

\* window resize without the re-clamp of the position
ResizeKeepingPosition ==
    /\ \E vp \in Viewports \ {viewport} : viewport' = vp
    /\ lastEvent' = "resize" /\ invoked' = << >>
    /\ UNCHANGED << propVars, hookVars, menuVars, envVars, exceeded >>
    /\ Rendered
    /\ UNCHANGED instances
    /\ UNCHANGED pressPosition

\* window resize: handleResize of useDraggable and of useRepulsionAndOrbit
Resize ==
    /\ \E vp \in Viewports \ {viewport} :
          /\ viewport' = vp
          /\ position' = ClampPosition(position, vp, DEFAULT_MAIN_BUTTON_SIZE)
    /\ lastEvent' = "resize" /\ invoked' = << >>
    /\ UNCHANGED << propVars, isDragging, hasMovedBeyondThreshold, dragOffset,
                    interactionStartScreenPosition, isDraggingRef, listeners,
                    menuVars, envVars, exceeded >>
    /\ Rendered
    /\ UNCHANGED instances
    /\ UNCHANGED pressPosition

\* item click that leaves the menu open
ItemClickStayingOpen ==
    /\ isOpen
    /\ fingers = 0 /\ listeners = {}
    /\ \E k \in 1..numItems :
          /\ k <= Len(itemPositions)
          /\ invoked' = << k >>
    /\ lastEvent' = "itemClick"
    /\ UNCHANGED << propVars, viewport, hookVars, menuVars, envVars, exceeded >>
    /\ Rendered
    /\ UNCHANGED instances
    /\ UNCHANGED pressPosition

\* click on a rendered item: the item container takes pointer events only
\* while isOpen, and item k is rendered only if itemPositions[k] exists
ItemClick ==
    /\ isOpen
    /\ fingers = 0 /\ listeners = {}
    /\ \E k \in 1..numItems :
          /\ k <= Len(itemPositions)
          /\ invoked' = << k >>
    /\ isOpen' = FALSE
    /\ lastEvent' = "itemClick"
    /\ UNCHANGED << propVars, viewport, hookVars, isToggleLocked, lockTimers,
                    envVars, exceeded >>
    /\ Rendered
    /\ UNCHANGED instances
    /\ UNCHANGED pressPosition

\* the setTimeout callback leaving the lock engaged
LockTimeoutKeepingLock ==
    /\ lockTimers > 0
    /\ isToggleLocked' = isToggleLocked
    /\ lockTimers' = lockTimers - 1
    /\ lastEvent' = "lockTimeout" /\ invoked' = << >>
    /\ UNCHANGED << propVars, viewport, hookVars, isOpen, envVars, exceeded >>
    /\ Rendered
    /\ UNCHANGED instances
    /\ UNCHANGED pressPosition

\* the setTimeout callback of handleMainButtonRelease
LockTimeout ==
    /\ lockTimers > 0
    /\ isToggleLocked' = FALSE
    /\ lockTimers' = lockTimers - 1
    /\ lastEvent' = "lockTimeout" /\ invoked' = << >>
    /\ UNCHANGED << propVars, viewport, hookVars, isOpen, envVars, exceeded >>
    /\ Rendered
    /\ UNCHANGED instances
    /\ UNCHANGED pressPosition

Next ==
    \/ MouseDownPrimary
    \/ MouseDownOther
    \/ TouchStart
    \/ PointerMove
    \/ MouseUpOnButton
    \/ MouseUpOutside
    \/ TouchEnd
    \/ TouchCancel
    \/ Resize
    \/ ItemClick
    \/ LockTimeout

Spec == Init /\ [][Next]_vars

\* Spec with what the scheduling guarantees: a timer that was set fires
\* (setTimeout of the toggle lock), and the platform ends every touch it
\* began, with touchend or with touchcancel.  No input of the user is
\* guaranteed.
SpecLive ==
    /\ Spec
    /\ WF_vars(LockTimeout)
    /\ WF_vars(TouchEnd \/ TouchCancel)

-----------------------------------------------------------------------------
(* The placement engine on its own: useRepulsionAndOrbit called with inputs *)
(* drawn from bounded sets, as RadialMenu calls it on a render.             *)

\* the largest number of menu items
MaxItems == 20

\* window sizes: a roomy one, a narrow one in which the orbit crosses both
\* side edges, and one smaller than the main button
PlacementViewports ==
    { [width |-> 800, height |-> 600],
      [width |-> 200, height |-> 600],
      [width |-> 40, height |-> 40] }

\* where the main button is asked to be, before the clamp: corners, edges,
\* and the middle of each window
PlacementPlaces ==
    { [x |-> 0, y |-> 0], [x |-> 10, y |-> 10], [x |-> 72, y |-> 272],
      [x |-> 372, y |-> 272], [x |-> 744, y |-> 544], [x |-> 700, y |-> 30] }

\* the orbit radii RadialMenu is given
PlacementRadii == {0 - DEFAULT_ORBIT_RADIUS, 0, DEFAULT_ORBIT_RADIUS}

InitPlacement ==
    /\ revision \in Revisions
    /\ viewport \in PlacementViewports
    /\ position \in {ClampPosition(p, viewport, DEFAULT_MAIN_BUTTON_SIZE) :
                        p \in PlacementPlaces}
    /\ isOpen \in BOOLEAN
    /\ numItems \in 0..MaxItems
    /\ orbitRadius \in PlacementRadii
    /\ itemSize = DEFAULT_ITEM_SIZE
    /\ itemPositions = << >>
    /\ isDragging = FALSE
    /\ hasMovedBeyondThreshold = FALSE
    /\ dragOffset = [x |-> 0, y |-> 0]
    /\ interactionStartScreenPosition = << >>
    /\ isDraggingRef = FALSE
    /\ listeners = {}
    /\ registrations = [t \in ListenerTypes("unified") |-> 0]
    /\ closure = [dragOffset |-> [x |-> 0, y |-> 0],
                  interactionStartScreenPosition |-> << >>,
                  hasMovedBeyondThreshold |-> FALSE]
    /\ instances = << >>
    /\ isToggleLocked = FALSE
    /\ lockTimers = 0
    /\ invoked = << >>
    /\ pointer = [x |-> 0, y |-> 0]
    /\ fingers = 0
    /\ lastEvent = "mount"
    /\ before = [isOpen |-> FALSE, isDragging |-> FALSE,
                 isToggleLocked |-> FALSE]
    /\ exceeded = FALSE
    /\ pressPosition = << >>

\* a render: useMemo computes calculatedPositions and the effect stores it
RenderPlacement ==
    /\ itemPositions' = calculatedPositions(revision, isOpen, position, numItems,
                                            orbitRadius, itemSize,
                                            DEFAULT_MAIN_BUTTON_SIZE, viewport)
    /\ lastEvent' = "render"
    /\ UNCHANGED << propVars, viewport, hookVars, menuVars, invoked, envVars,
                    before, exceeded, registrations, closure >>
    /\ UNCHANGED instances
    /\ UNCHANGED pressPosition

\* isOpen flips (setIsOpen), and the render that follows
TogglePlacement ==
    /\ isOpen' = ~isOpen
    /\ itemPositions' = calculatedPositions(revision, isOpen', position, numItems,
                                            orbitRadius, itemSize,
                                            DEFAULT_MAIN_BUTTON_SIZE, viewport)
    /\ lastEvent' = "toggle"
    /\ before' = [before EXCEPT !.isOpen = isOpen]
    /\ UNCHANGED << propVars, viewport, hookVars, isToggleLocked, lockTimers,
                    invoked, envVars, exceeded, registrations, closure >>
    /\ UNCHANGED instances
    /\ UNCHANGED pressPosition

NextPlacement ==
    \/ RenderPlacement
    \/ TogglePlacement

SpecPlacement == InitPlacement /\ [][NextPlacement]_vars

-----------------------------------------------------------------------------
(* useDraggable on its own, with passive effects run as React schedules     *)
(* them.  useEffect callbacks run after the commit, at the latest before    *)
(* the next render, and an event may be delivered in between: a handler     *)
(* then reads isDraggingRef, the attached listeners and their closures as   *)
(* the previous run of the effects left them.  State variables hold the     *)
(* committed state; isDraggingRef, listeners, registrations and closure     *)
(* hold what the effects did last.                                          *)

\* the ref-sync effect or the listener effect has a changed dependency
EffectsPending ==
    \/ isDraggingRef # isDragging
    \/ closure.dragOffset # dragOffset
    \/ closure.interactionStartScreenPosition # interactionStartScreenPosition
    \/ closure.hasMovedBeyondThreshold # hasMovedBeyondThreshold

\* the pending effects run on the committed state: isDraggingRef.current is
\* set, the old listeners are removed and new ones added if isDragging
RunPendingEffects ==
    /\ isDraggingRef' = isDragging
    /\ listeners' = ListenerEffect(revision, isDragging)
    /\ registrations' =
          IF EffectsPending
          THEN ListenerRegistrations(registrations, revision, isDragging)
          ELSE registrations
    /\ closure' = [dragOffset |-> dragOffset,
                   interactionStartScreenPosition |->
                       interactionStartScreenPosition,
                   hasMovedBeyondThreshold |-> hasMovedBeyondThreshold]

\* what the deferred specification leaves alone
restVars == << propVars, menuVars, itemPositions, invoked, fingers, before,
              exceeded >>

\* mousedown (button 0) or touchstart on the main button:
\* handleInteractionStart; React runs the pending effects before the render
DeferredInteractionStart ==
    /\ \E c \in {d \in PointerTargets :
                    OnMainButton(d, position, DEFAULT_MAIN_BUTTON_SIZE)} :
          /\ pointer' = c
          /\ dragOffset' = [x |-> c.x - position.x, y |-> c.y - position.y]
          /\ interactionStartScreenPosition' = << c >>
    /\ hasMovedBeyondThreshold' = FALSE
    /\ isDragging' = TRUE
    /\ RunPendingEffects
    /\ \E e \in {"mousedown"} \cup
                  (IF revision = "unified" THEN {"touchstart"} ELSE {}) :
          lastEvent' = e
    /\ UNCHANGED << restVars, viewport, position >>
    /\ UNCHANGED instances
    /\ pressPosition' = << position >>

\* mousemove or touchmove with the move listener attached:
\* handleInteractionMove, reading the ref and the closure of the effect's
\* last run
DeferredInteractionMove ==
    /\ listeners \cap {"mousemove", "touchmove"} # {}
    /\ \E c \in MoveTargets :
          /\ pointer' = c
          /\ IF ~isDraggingRef
             THEN UNCHANGED << position, hasMovedBeyondThreshold, isDraggingRef,
                               listeners, registrations, closure >>
             ELSE /\ hasMovedBeyondThreshold' =
                         IF /\ closure.interactionStartScreenPosition # << >>
                            /\ ~closure.hasMovedBeyondThreshold
                            /\ BeyondThreshold(
                                   c, closure.interactionStartScreenPosition[1],
                                   DEFAULT_DRAG_THRESHOLD)
                         THEN TRUE
                         ELSE hasMovedBeyondThreshold
                  /\ position' = ClampPosition(
                                     [x |-> c.x - closure.dragOffset.x,
                                      y |-> c.y - closure.dragOffset.y],
                                     viewport, DEFAULT_MAIN_BUTTON_SIZE)
                  /\ RunPendingEffects
    /\ lastEvent' = "move"
    /\ UNCHANGED << restVars, viewport, isDragging, dragOffset,
                    interactionStartScreenPosition >>
    /\ UNCHANGED instances
    /\ UNCHANGED pressPosition

\* mouseup or touchend with the end listener attached: handleInteractionEnd;
\* setIsDragging(false) renders when it changes the state
DeferredInteractionEnd ==
    /\ \E t \in listeners \cap {"mouseup", "touchend"} : lastEvent' = t
    /\ isDragging' = FALSE
    /\ IF isDragging
       THEN RunPendingEffects
       ELSE UNCHANGED << isDraggingRef, listeners, registrations, closure >>
    /\ UNCHANGED << restVars, viewport, pointer, position,
                    hasMovedBeyondThreshold, dragOffset,
                    interactionStartScreenPosition >>
    /\ UNCHANGED instances
    /\ UNCHANGED pressPosition

\* window resize: handleResize of useDraggable
DeferredResize ==
    /\ \E vp \in Viewports \ {viewport} :
          /\ viewport' = vp
          /\ position' = ClampPosition(position, vp, DEFAULT_MAIN_BUTTON_SIZE)
    /\ RunPendingEffects
    /\ lastEvent' = "resize"
    /\ UNCHANGED << restVars, pointer, isDragging, hasMovedBeyondThreshold,
                    dragOffset, interactionStartScreenPosition >>
    /\ UNCHANGED instances
    /\ UNCHANGED pressPosition

\* React runs the pending passive effects
FlushPassiveEffects ==
    /\ EffectsPending
    /\ RunPendingEffects
    /\ lastEvent' = "effects"
    /\ UNCHANGED << restVars, viewport, pointer, position, isDragging,
                    hasMovedBeyondThreshold, dragOffset,
                    interactionStartScreenPosition >>
    /\ UNCHANGED instances
    /\ UNCHANGED pressPosition

NextDeferred ==
    \/ DeferredInteractionStart
    \/ DeferredInteractionMove
    \/ DeferredInteractionEnd
    \/ DeferredResize
    \/ FlushPassiveEffects

SpecDeferred == Init /\ [][NextDeferred]_vars

-----------------------------------------------------------------------------
(* useDraggable given events as the DOM delivers them: a press event is a   *)
(* record with its type, its button (mouse events), its touch lists (touch  *)
(* events) and its clientX/clientY.  A property the event does not have     *)
(* reads as undefined, and arithmetic on undefined gives NaN; both are      *)
(* NotANumber here.  Commits are synchronous, as in Spec.                   *)

\* the largest value of MouseEvent.button the environment produces
MaxButton == 2

\* undefined and NaN: what a missing clientX reads as and what arithmetic
\* makes of it
NotANumber == 0 - 1000000

\* a pair of coordinates that are not numbers
NoCoordinates == [x |-> NotANumber, y |-> NotANumber]

\* a - b in JavaScript
JsMinus(a, b) == IF a = NotANumber \/ b = NotANumber THEN NotANumber ELSE a - b

\* Math.max(0, Math.min(v, limit)) in JavaScript
JsClampAxis(v, limit) == IF v = NotANumber THEN NotANumber ELSE ClampAxis(v, limit)

\* the points of the main button a press can be reported at
ButtonPoints ==
    IF position.x = NotANumber \/ position.y = NotANumber
    THEN {}
    ELSE {c \in PointerTargets :
             OnMainButton(c, position, DEFAULT_MAIN_BUTTON_SIZE)}

\* the lists of the touches on the screen, oldest first
TouchLists ==
    UNION {[1..n -> PointerTargets] : n \in 0..MaxFingers}

\* the touch lists of a touchstart: the touch that began, on the main
\* button, is the only changed touch and the youngest of the touches, or
\* the lists are empty
TouchStartLists ==
    {l \in [touches : TouchLists, changedTouches : TouchLists] :
        \/ Len(l.changedTouches) = 0 /\ Len(l.touches) = 0
        \/ /\ Len(l.changedTouches) = 1
           /\ l.changedTouches[1] \in ButtonPoints
           /\ \/ Len(l.touches) = 0
              \/ l.touches[Len(l.touches)] = l.changedTouches[1]}

\* the press events delivered to the main button's onMouseDown and
\* onTouchStart
StartEvents ==
    {[type |-> "mousedown", hasButton |-> TRUE, button |-> b,
      touches |-> << >>, changedTouches |-> << >>, client |-> c] :
        b \in 0..MaxButton, c \in ButtonPoints}
    \cup
    (IF revision = "unified"
     THEN {[type |-> "touchstart", hasButton |-> FALSE, button |-> 0,
            touches |-> l.touches, changedTouches |-> l.changedTouches,
            client |-> NoCoordinates] : l \in TouchStartLists}
     ELSE {})

\* where the pointer or the finger of a press event is
PressPoint(event) ==
    IF event.type = "touchstart"
    THEN IF Len(event.changedTouches) > 0
         THEN event.changedTouches[1]
         ELSE pointer
    ELSE event.client

\* getEventCoordinates reading the event's own clientX/clientY only
getEventCoordinatesOfMouseEvent(event) == event.client

\* getEventCoordinates: of an event with touch lists touches[0], else
\* changedTouches[0]; else the event's own clientX/clientY
getEventCoordinates(event) ==
    IF event.type \in {"touchstart", "touchmove", "touchend"}
    THEN IF Len(event.touches) > 0
         THEN event.touches[1]
         ELSE IF Len(event.changedTouches) > 0
              THEN event.changedTouches[1]
              ELSE event.client
    ELSE event.client

\* what the press is recorded as
StartEventLabel(event) ==
    IF event.hasButton /\ event.button # 0
    THEN "mousedownOther"
    ELSE IF getEventCoordinates(event) = NoCoordinates
         THEN "touchstartMalformed"
         ELSE event.type

\* a press event on the main button: handleInteractionStart / handleMouseDown
StartEvent ==
    /\ \E event \in StartEvents :
          /\ lastEvent' = StartEventLabel(event)
          /\ pointer' = PressPoint(event)
          /\ IF event.hasButton /\ event.button # 0
             THEN UNCHANGED hookVars
             ELSE LET coords == getEventCoordinates(event)
                  IN  /\ dragOffset' = [x |-> JsMinus(coords.x, position.x),
                                        y |-> JsMinus(coords.y, position.y)]
                      /\ interactionStartScreenPosition' = << coords >>
                      /\ hasMovedBeyondThreshold' = FALSE
                      /\ isDragging' = TRUE
                      /\ isDraggingRef' = TRUE
                      /\ listeners' = ListenerEffect(revision, TRUE)
                      /\ position' = position
    /\ ListenerCommit
    /\ UNCHANGED << restVars, viewport >>
    /\ UNCHANGED instances
    /\ pressPosition' = IF lastEvent' = "mousedownOther"
                        THEN pressPosition
                        ELSE << position >>

\* mousemove or touchmove with the move listener attached:
\* handleInteractionMove / handleMouseMove
MoveEvent ==
    /\ listeners \cap {"mousemove", "touchmove"} # {}
    /\ isDraggingRef
    /\ \E c \in MoveTargets :
          /\ pointer' = c
          /\ hasMovedBeyondThreshold' =
                IF /\ interactionStartScreenPosition # << >>
                   /\ ~hasMovedBeyondThreshold
                   /\ interactionStartScreenPosition[1] # NoCoordinates
                   /\ BeyondThreshold(c, interactionStartScreenPosition[1],
                                      DEFAULT_DRAG_THRESHOLD)
                THEN TRUE
                ELSE hasMovedBeyondThreshold
          /\ position' =
                [x |-> JsClampAxis(JsMinus(c.x, dragOffset.x),
                                   viewport.width - DEFAULT_MAIN_BUTTON_SIZE),
                 y |-> JsClampAxis(JsMinus(c.y, dragOffset.y),
                                   viewport.height - DEFAULT_MAIN_BUTTON_SIZE)]
    /\ listeners' = ListenerEffect(revision, isDragging)
    /\ lastEvent' = "move"
    /\ UNCHANGED << restVars, viewport, isDragging, dragOffset,
                    interactionStartScreenPosition, isDraggingRef >>
    /\ ListenerCommit
    /\ UNCHANGED instances
    /\ UNCHANGED pressPosition

\* mouseup or touchend with the end listener attached: handleInteractionEnd
\* / handleMouseUp
EndEvent ==
    /\ \E t \in listeners \cap {"mouseup", "touchend"} : lastEvent' = t
    /\ handleInteractionEnd
    /\ UNCHANGED << restVars, viewport, pointer >>
    /\ ListenerCommit
    /\ UNCHANGED instances
    /\ UNCHANGED pressPosition

NextEvents ==
    \/ StartEvent
    \/ MoveEvent
    \/ EndEvent

SpecEvents == Init /\ [][NextEvents]_vars

-----------------------------------------------------------------------------
(* Two unified useDraggable hooks mounted side by side at the same place:   *)
(* every press, move and release is delivered to one as a primary-button    *)
(* mouse event and to the other as a single-touch event.  Commits are       *)
(* synchronous, as in Spec.                                                 *)

\* the mouse event of a type at a point, primary button
MouseEventAt(type, c) ==
    [type |-> type, hasButton |-> TRUE, button |-> 0,
     touches |-> << >>, changedTouches |-> << >>, client |-> c]

\* the touch event of a type for the only finger at a point: the finger is
\* in touches unless it has just been lifted
TouchEventAt(type, c) ==
    [type |-> type, hasButton |-> FALSE, button |-> 0,
     touches |-> IF type = "touchend" THEN << >> ELSE << c >>,
     changedTouches |-> << c >>, client |-> NoCoordinates]

\* handleInteractionStart of a hook h, with the commit
handleInteractionStart(h, event) ==
    IF event.hasButton /\ event.button # 0
    THEN h
    ELSE LET coords == getEventCoordinates(event)
         IN  [h EXCEPT
                 !.dragOffset = [x |-> JsMinus(coords.x, h.position.x),
                                 y |-> JsMinus(coords.y, h.position.y)],
                 !.interactionStartScreenPosition = << coords >>,
                 !.hasMovedBeyondThreshold = FALSE,
                 !.isDragging = TRUE,
                 !.isDraggingRef = TRUE,
                 !.listeners = ListenerEffect("unified", TRUE)]

\* a move event on the window reaching handleInteractionMove of a hook h
\* through its listener, with the commit
windowInteractionMove(h, event, vp) ==
    IF event.type \notin h.listeners \/ ~h.isDraggingRef
    THEN h
    ELSE LET coords == getEventCoordinates(event)
             origin == h.interactionStartScreenPosition
         IN  [h EXCEPT
                 !.hasMovedBeyondThreshold =
                     IF /\ origin # << >>
                        /\ ~h.hasMovedBeyondThreshold
                        /\ coords # NoCoordinates
                        /\ origin[1] # NoCoordinates
                        /\ BeyondThreshold(coords, origin[1],
                                           DEFAULT_DRAG_THRESHOLD)
                     THEN TRUE
                     ELSE h.hasMovedBeyondThreshold,
                 !.position =
                     [x |-> JsClampAxis(
                                JsMinus(coords.x, h.dragOffset.x),
                                vp.width - DEFAULT_MAIN_BUTTON_SIZE),
                      y |-> JsClampAxis(
                                JsMinus(coords.y, h.dragOffset.y),
                                vp.height - DEFAULT_MAIN_BUTTON_SIZE)]]

\* an end event on the window reaching handleInteractionEnd of a hook h
\* through its listener, with the commit
windowInteractionEnd(h, event) ==
    IF event.type \notin h.listeners
    THEN h
    ELSE [h EXCEPT !.isDragging = FALSE,
                   !.isDraggingRef = FALSE,
                   !.listeners = ListenerEffect("unified", FALSE)]

\* handleResize of a hook h
handleResize(h, vp) ==
    [h EXCEPT !.position =
        [x |-> JsClampAxis(h.position.x, vp.width - DEFAULT_MAIN_BUTTON_SIZE),
         y |-> JsClampAxis(h.position.y, vp.height - DEFAULT_MAIN_BUTTON_SIZE)]]

InitModality ==
    /\ Init
    /\ revision = "unified"

\* the two hooks mount where the menu's own hook is
MountBoth ==
    /\ instances = << >>
    /\ instances' = [m \in {"mouse", "touch"} |-> MountedHook(position)]
    /\ lastEvent' = "mountBoth"
    /\ UNCHANGED << hookVars, registrations, closure, restVars, viewport,
                    pointer >>
    /\ UNCHANGED pressPosition

\* a press on the control: mousedown for one hook, touchstart for the other
PressBoth ==
    /\ instances # << >>
    /\ \E c \in PointerTargets :
          /\ instances.mouse.position # NoCoordinates
          /\ OnMainButton(c, instances.mouse.position,
                          DEFAULT_MAIN_BUTTON_SIZE)
          /\ instances' =
                [mouse |-> handleInteractionStart(
                               instances.mouse, MouseEventAt("mousedown", c)),
                 touch |-> handleInteractionStart(
                               instances.touch, TouchEventAt("touchstart", c))]
          /\ pointer' = c
    /\ lastEvent' = "pressBoth"
    /\ UNCHANGED << hookVars, registrations, closure, restVars, viewport >>
    /\ UNCHANGED pressPosition

\* a move anywhere: mousemove for one hook, touchmove for the other
MoveBoth ==
    /\ instances # << >>
    /\ \E c \in MoveTargets :
          /\ instances' =
                [mouse |-> windowInteractionMove(
                               instances.mouse, MouseEventAt("mousemove", c),
                               viewport),
                 touch |-> windowInteractionMove(
                               instances.touch, TouchEventAt("touchmove", c),
                               viewport)]
          /\ pointer' = c
    /\ lastEvent' = "moveBoth"
    /\ UNCHANGED << hookVars, registrations, closure, restVars, viewport >>
    /\ UNCHANGED pressPosition

\* a release where the pointer is: mouseup for one hook, touchend for the
\* other
ReleaseBoth ==
    /\ instances # << >>
    /\ instances' =
          [mouse |-> windowInteractionEnd(
                         instances.mouse, MouseEventAt("mouseup", pointer)),
           touch |-> windowInteractionEnd(
                         instances.touch, TouchEventAt("touchend", pointer))]
    /\ lastEvent' = "releaseBoth"
    /\ UNCHANGED << hookVars, registrations, closure, restVars, viewport,
                    pointer >>
    /\ UNCHANGED pressPosition

\* the window is resized: both hooks' handleResize
ResizeBoth ==
    /\ instances # << >>
    /\ \E vp \in Viewports \ {viewport} :
          /\ viewport' = vp
          /\ instances' = [m \in {"mouse", "touch"} |->
                              handleResize(instances[m], vp)]
    /\ lastEvent' = "resizeBoth"
    /\ UNCHANGED << hookVars, registrations, closure, restVars, pointer >>
    /\ UNCHANGED pressPosition

NextModality ==
    \/ MountBoth
    \/ PressBoth
    \/ MoveBoth
    \/ ReleaseBoth
    \/ ResizeBoth

SpecModality == InitModality /\ [][NextModality]_vars

-----------------------------------------------------------------------------
(* useRepulsionAndOrbit with its effect as a step of its own: a change of   *)
(* an input re-renders and useMemo recomputes at once, and the effect that  *)
(* stores the result in itemPositions, the value RadialMenu renders from,   *)
(* runs later.  React runs the effect of a render before it renders again.  *)

\* useMemo: the value computed for the open menu, kept per dependency list
ExposureMemo ==
    {[rev |-> rev, vp |-> vp, center |-> c, n |-> n, radius |-> r,
      value |-> calculatedPositions(rev, TRUE, c, n, r, DEFAULT_ITEM_SIZE,
                                    DEFAULT_MAIN_BUTTON_SIZE, vp)] :
        rev \in Revisions, vp \in PlacementViewports,
        c \in {ClampPosition(p, w, DEFAULT_MAIN_BUTTON_SIZE) :
                  p \in PlacementPlaces, w \in PlacementViewports},
        n \in 1..NumMenuItems, r \in {DEFAULT_ORBIT_RADIUS}}

\* the value of useMemo at the last render
calculatedPositionsMemo ==
    IF /\ isOpen /\ itemSize = DEFAULT_ITEM_SIZE
       /\ \E m \in ExposureMemo :
              /\ m.rev = revision /\ m.vp = viewport /\ m.center = position
              /\ m.n = numItems /\ m.radius = orbitRadius
    THEN (CHOOSE m \in ExposureMemo :
              /\ m.rev = revision /\ m.vp = viewport /\ m.center = position
              /\ m.n = numItems /\ m.radius = orbitRadius).value
    ELSE calculatedPositions(revision, isOpen, position, numItems,
                             orbitRadius, itemSize, DEFAULT_MAIN_BUTTON_SIZE,
                             viewport)

\* what no input change and no effect of the placement hook writes
exposureFrame ==
    << revision, itemSize, isDragging, hasMovedBeyondThreshold, dragOffset,
       interactionStartScreenPosition, isDraggingRef, listeners,
       registrations, closure, instances, isToggleLocked, lockTimers,
       invoked, pointer, fingers, before, exceeded, pressPosition >>

\* setIsOpen: the menu opens or closes
SetIsOpen ==
    /\ isOpen' = ~isOpen
    /\ itemPositions' = calculatedPositionsMemo
    /\ lastEvent' = "toggle"
    /\ UNCHANGED << exposureFrame, viewport, position, numItems,
                    orbitRadius >>

\* setPosition of useDraggable: centerPosition changes
SetCenterPosition ==
    /\ \E p \in PlacementPlaces :
          /\ position' = ClampPosition(p, viewport, DEFAULT_MAIN_BUTTON_SIZE)
          /\ position' # position
    /\ itemPositions' = calculatedPositionsMemo
    /\ lastEvent' = "move"
    /\ UNCHANGED << exposureFrame, viewport, isOpen, numItems, orbitRadius >>

\* the items prop gets one item more or one less
SetNumItems ==
    /\ \E n \in {numItems - 1, numItems + 1} \cap (0..NumMenuItems) :
          numItems' = n
    /\ itemPositions' = calculatedPositionsMemo
    /\ lastEvent' = "items"
    /\ UNCHANGED << exposureFrame, viewport, position, isOpen, orbitRadius >>

\* the orbitRadius prop changes
SetOrbitRadius ==
    /\ \E r \in PlacementRadii \ {orbitRadius} : orbitRadius' = r
    /\ itemPositions' = calculatedPositionsMemo
    /\ lastEvent' = "radius"
    /\ UNCHANGED << exposureFrame, viewport, position, isOpen, numItems >>

\* the window is resized: setViewportSize, and handleResize of useDraggable
SetViewportSize ==
    /\ \E vp \in PlacementViewports \ {viewport} :
          /\ viewport' = vp
          /\ position' = ClampPosition(position, vp, DEFAULT_MAIN_BUTTON_SIZE)
    /\ itemPositions' = calculatedPositionsMemo
    /\ lastEvent' = "resize"
    /\ UNCHANGED << exposureFrame, isOpen, numItems, orbitRadius >>

\* the effect that stores nothing once the menu is closed
SetItemPositionsWhileOpen ==
    /\ isOpen
    /\ itemPositions # calculatedPositionsMemo
    /\ itemPositions' = calculatedPositionsMemo
    /\ lastEvent' = "effect"
    /\ UNCHANGED << exposureFrame, viewport, position, isOpen, numItems,
                    orbitRadius >>

\* the effect of the last render: setItemPositions(calculatedPositions)
SetItemPositions ==
    /\ itemPositions # calculatedPositionsMemo
    /\ itemPositions' = calculatedPositionsMemo
    /\ lastEvent' = "effect"
    /\ UNCHANGED << exposureFrame, viewport, position, isOpen, numItems,
                    orbitRadius >>

NextExposure ==
    \/ SetIsOpen
    \/ SetCenterPosition
    \/ SetNumItems
    \/ SetOrbitRadius
    \/ SetViewportSize
    \/ SetItemPositions

\* the menu mounts closed, with the default orbit radius
InitExposure ==
    /\ InitPlacement
    /\ ~isOpen
    /\ numItems = NumMenuItems
    /\ orbitRadius = DEFAULT_ORBIT_RADIUS

\* React runs a pending effect
SpecExposure ==
    InitExposure /\ [][NextExposure]_vars /\ WF_vars(SetItemPositions)

-----------------------------------------------------------------------------
(* useDraggable from its first render: useState holds the initial position  *)
(* as computed from the options, and the effect that registers handleResize *)
(* calls it once at mount.                                                  *)

\* the values of options.initialPosition the callers pass: left of and above
\* the window, on it, and right of and below it
CallerPositions ==
    {[x |-> a, y |-> b] : a, b \in {0 - 100, 0, 28, 30, 32, 400}}

\* the initializer of useState: options.initialPosition, or the middle of
\* the window, less half the element size
InitialState(initialPosition, size) ==
    [x |-> initialPosition.x - (size \div 2),
     y |-> initialPosition.y - (size \div 2)]

\* the first render, before any effect has run
InitMount ==
    /\ revision \in Revisions
    /\ viewport \in Viewports
    /\ \E p \in CallerPositions \cup
                   {[x |-> viewport.width \div 2, y |-> viewport.height \div 2]} :
          position = InitialState(p, DEFAULT_MAIN_BUTTON_SIZE)
    /\ isDragging = FALSE
    /\ hasMovedBeyondThreshold = FALSE
    /\ dragOffset = [x |-> 0, y |-> 0]
    /\ interactionStartScreenPosition = << >>
    /\ isDraggingRef = FALSE
    /\ listeners = {}
    /\ registrations = [t \in ListenerTypes("unified") |-> 0]
    /\ closure = [dragOffset |-> [x |-> 0, y |-> 0],
                  interactionStartScreenPosition |-> << >>,
                  hasMovedBeyondThreshold |-> FALSE]
    /\ instances = << >>
    /\ isOpen = FALSE
    /\ isToggleLocked = FALSE
    /\ lockTimers = 0
    /\ numItems = NumMenuItems
    /\ orbitRadius = DragOrbitRadius
    /\ itemSize = DragItemSize
    /\ itemPositions = << >>
    /\ invoked = << >>
    /\ pointer = [x |-> 0, y |-> 0]
    /\ fingers = 0
    /\ lastEvent = "render"
    /\ before = [isOpen |-> FALSE, isDragging |-> FALSE,
                 isToggleLocked |-> FALSE]
    /\ exceeded = FALSE
    /\ pressPosition = << >>

\* the mount effect without its call of handleResize
MountEffectWithoutResize ==
    /\ lastEvent = "render"
    /\ lastEvent' = "mount"
    /\ UNCHANGED << hookVars, registrations, closure, instances, restVars,
                    viewport, pointer >>
    /\ UNCHANGED pressPosition

\* the mount effect: handleResize is registered and called once
MountEffect ==
    /\ lastEvent = "render"
    /\ position' = ClampPosition(position, viewport, DEFAULT_MAIN_BUTTON_SIZE)
    /\ lastEvent' = "mount"
    /\ UNCHANGED << isDragging, hasMovedBeyondThreshold, dragOffset,
                    interactionStartScreenPosition, isDraggingRef, listeners,
                    registrations, closure, instances, restVars, viewport,
                    pointer >>
    /\ UNCHANGED pressPosition

NextMount ==
    \/ MountEffect

SpecMount == InitMount /\ [][NextMount]_vars

-----------------------------------------------------------------------------
(* Properties of the drag controller and the menu controller, under Spec.   *)

\* the events that are a release on the main control
MainControlReleases == {"mouseupPrimary", "mouseupOther", "touchend"}

\* the events that are a release, on the main control or elsewhere
Releases == MainControlReleases \cup {"mouseupOutside"}

\* the events that are an accepted interaction start
AcceptedStarts == {"mousedown", "touchstart"}

\* the last event was a release that ended an interaction in progress
ReleaseEndedInteraction ==
    /\ lastEvent \in Releases
    /\ before.isDragging
    /\ ~isDragging
    /\ interactionStartScreenPosition # << >>

\* the squared displacement of the pointer from the press origin
DisplacementSquared ==
    SquaredDistance(pointer, interactionStartScreenPosition[1])

ThresholdSquared == DEFAULT_DRAG_THRESHOLD * DEFAULT_DRAG_THRESHOLD

\* the largest value the clamp allows on an axis of the given extent
UpperLimit(extent) == Max(0, extent - DEFAULT_MAIN_BUTTON_SIZE)

\* C1 as the specification states it: after every processed move and every
\* resize, 0 <= x <= viewportWidth - footprint and likewise for y.
C1_ClampingAsStated ==
    lastEvent \in {"move", "resize"} =>
        /\ 0 <= position.x
        /\ position.x <= viewport.width - DEFAULT_MAIN_BUTTON_SIZE
        /\ 0 <= position.y
        /\ position.y <= viewport.height - DEFAULT_MAIN_BUTTON_SIZE

\* C1, amended: after every processed move and every resize, each
\* coordinate of the position is at least 0 and at most
\* max(0, viewport - footprint): inside [0, viewport - footprint] when the
\* window is at least as large as the footprint, and 0 when it is smaller.
C1_Clamping ==
    lastEvent \in {"move", "resize"} =>
        /\ 0 <= position.x /\ position.x <= UpperLimit(viewport.width)
        /\ 0 <= position.y /\ position.y <= UpperLimit(viewport.height)

\* C1 witness: a processed move asked for a place right of the window's
\* last allowed place and the control was stopped at it
C1_Witness ==
    /\ lastEvent = "move"
    /\ viewport.width > DEFAULT_MAIN_BUTTON_SIZE
    /\ pointer.x - dragOffset.x > viewport.width - DEFAULT_MAIN_BUTTON_SIZE
    /\ position.x = viewport.width - DEFAULT_MAIN_BUTTON_SIZE

\* C2: a release on the main control, after a move of the interaction went
\* beyond the drag threshold, leaves isOpen and the toggle lock as they were.
C2_DragNeverToggles ==
    (lastEvent \in MainControlReleases /\ exceeded) =>
        /\ isOpen = before.isOpen
        /\ isToggleLocked = before.isToggleLocked

\* C2 witness: a drag beyond the threshold was released on the main control
\* while the toggle was not locked
C2_Witness ==
    /\ lastEvent \in MainControlReleases
    /\ before.isDragging /\ ~isDragging
    /\ exceeded
    /\ ~before.isToggleLocked
    /\ isOpen = before.isOpen

\* C3 as the specification states it: isOpen changes only by an item tap or
\* by a primary-button or touch release on the main control that ends an
\* interaction begun by an accepted press, in which the threshold was never
\* exceeded.
C3_OnlyQualifyingTapToggles ==
    (isOpen # before.isOpen) =>
        \/ lastEvent = "itemClick"
        \/ /\ lastEvent \in {"mouseupPrimary", "touchend"}
           /\ before.isDragging
           /\ ~exceeded

\* C4: hasMovedBeyondThreshold is false right after an accepted interaction
\* start, and no other event takes it from true to false.
C4_ThresholdMonotonicity ==
    [][ /\ (lastEvent' \in AcceptedStarts) => ~hasMovedBeyondThreshold'
        /\ (lastEvent' \notin AcceptedStarts /\ hasMovedBeyondThreshold)
               => hasMovedBeyondThreshold' ]_vars

\* C4 witness: the flag is still true after the interaction ended and an
\* item was tapped
C4_Witness ==
    /\ hasMovedBeyondThreshold
    /\ ~isDragging
    /\ lastEvent = "itemClick"

\* C5 as the specification states it: at the release that ends an
\* interaction, a displacement from the press origin below the threshold
\* gives hasMovedBeyondThreshold = false and one above it gives true.
C5_VerdictByFinalDisplacement ==
    ReleaseEndedInteraction =>
        /\ (DisplacementSquared < ThresholdSquared) => ~hasMovedBeyondThreshold
        /\ (DisplacementSquared > ThresholdSquared) => hasMovedBeyondThreshold

\* C5, amended: at the release that ends an interaction,
\* hasMovedBeyondThreshold is true exactly if some processed move of the
\* interaction was farther than the threshold from the press origin; so a
\* final displacement above the threshold gives true, and a pointer that
\* never went beyond it gives false.
C5_VerdictByLargestDisplacement ==
    ReleaseEndedInteraction =>
        /\ hasMovedBeyondThreshold <=> exceeded
        /\ (DisplacementSquared > ThresholdSquared) => hasMovedBeyondThreshold

\* C5 witness: the pointer went beyond the threshold and was released within
\* it, and the flag reads true
C5_Witness ==
    /\ ReleaseEndedInteraction
    /\ exceeded
    /\ DisplacementSquared < ThresholdSquared
    /\ hasMovedBeyondThreshold

\* C7: a release on the main control that arrives while the toggle lock is
\* engaged leaves isOpen unchanged and the lock engaged.
C7_ToggleLock ==
    (lastEvent \in MainControlReleases /\ before.isToggleLocked) =>
        /\ isOpen = before.isOpen
        /\ isToggleLocked

\* C7 witness: a release that would have toggled (the threshold was not
\* passed) arrived while the lock was engaged
C7_Witness ==
    /\ lastEvent \in MainControlReleases
    /\ before.isToggleLocked
    /\ ~hasMovedBeyondThreshold
    /\ isOpen = before.isOpen

\* C8: an item is tapped only while isOpen; the tap calls that item's action
\* once and isOpen is false afterwards; no other event calls an action.
C8_ItemTap ==
    /\ lastEvent = "itemClick" =>
            /\ before.isOpen
            /\ ~isOpen
            /\ Len(invoked) = 1
            /\ invoked[1] \in 1..numItems
    /\ lastEvent # "itemClick" => invoked = << >>

\* C8 witness: an item was tapped while the toggle lock was engaged and
\* hasMovedBeyondThreshold was true
C8_Witness ==
    /\ lastEvent = "itemClick"
    /\ isToggleLocked
    /\ hasMovedBeyondThreshold

\* C9: after every processed move, whether or not the threshold was passed,
\* each coordinate of the position is pointer - dragOffset brought into
\* [0, viewport - footprint]: 0 below it, the limit above it, itself inside.
C9_MoveUpdate ==
    lastEvent = "move" =>
        LET wantedX == pointer.x - dragOffset.x
            wantedY == pointer.y - dragOffset.y
            limitX == UpperLimit(viewport.width)
            limitY == UpperLimit(viewport.height)
        IN  /\ position.x = (IF wantedX < 0 THEN 0
                              ELSE IF wantedX > limitX THEN limitX ELSE wantedX)
            /\ position.y = (IF wantedY < 0 THEN 0
                              ELSE IF wantedY > limitY THEN limitY ELSE wantedY)

\* C9 witness: a processed move within the threshold moved the control
C9_Witness ==
    /\ lastEvent = "move"
    /\ ~hasMovedBeyondThreshold
    /\ interactionStartScreenPosition # << >>
    /\ pointer # interactionStartScreenPosition[1]
    /\ position.x = pointer.x - dragOffset.x
    /\ position.x # interactionStartScreenPosition[1].x - dragOffset.x

\* C10: a mouse press with a non-primary button changes none of isDragging,
\* the press origin, the drag offset, hasMovedBeyondThreshold, the position
\* and the attached window listeners.
C10_NonPrimaryPressIgnored ==
    [][ (lastEvent' = "mousedownOther") =>
            UNCHANGED << isDragging, interactionStartScreenPosition,
                         dragOffset, hasMovedBeyondThreshold, position,
                         listeners >> ]_vars

\* C10 witness: a non-primary press on the main control, and no drag began
C10_Witness ==
    /\ lastEvent = "mousedownOther"
    /\ ~isDragging
    /\ listeners = {}

C20_NoStuckDrag ==
    (isDragging /\ lastEvent = "touchstart") ~> ~isDragging

\* C23: the latch is exact: during an interaction and at its end,
\* hasMovedBeyondThreshold is true exactly if a move processed in this
\* interaction was strictly farther than the threshold from the press
\* origin; a distance equal to the threshold does not set it, and a later
\* move back to the origin does not clear it.
C23_LatchExactness ==
    (isDragging \/ ReleaseEndedInteraction) =>
        (hasMovedBeyondThreshold <=> exceeded)

\* C23 witness: an interaction ended with the pointer exactly at the
\* threshold distance from the press origin, and the flag is false
C23_Witness ==
    /\ ReleaseEndedInteraction
    /\ DisplacementSquared = ThresholdSquared
    /\ ~exceeded
    /\ ~hasMovedBeyondThreshold

\* C24: no reset in mid-drag: while the controller stays dragging,
\* hasMovedBeyondThreshold does not go from true to false, whatever event
\* arrives.
C24_NoMidDragReset ==
    [][ (isDragging /\ isDragging' /\ hasMovedBeyondThreshold) =>
            hasMovedBeyondThreshold' ]_vars

C35_NoJumpOnGrab ==
    (lastEvent = "move" /\ pressPosition # << >>) =>
        LET wantedX == pressPosition[1].x +
                           (pointer.x - interactionStartScreenPosition[1].x)
            wantedY == pressPosition[1].y +
                           (pointer.y - interactionStartScreenPosition[1].y)
        IN  /\ (0 <= wantedX /\ wantedX <= UpperLimit(viewport.width))
                   => position.x = wantedX
            /\ (0 <= wantedY /\ wantedY <= UpperLimit(viewport.height))
                   => position.y = wantedY
            /\ (pointer = interactionStartScreenPosition[1]
                   /\ pressPosition[1].x <= UpperLimit(viewport.width)
                   /\ pressPosition[1].y <= UpperLimit(viewport.height))
                   => position = pressPosition[1]

\* C35 witness: the control was dragged off its place with the pointer past
\* the threshold, and a move back to the press origin has put it back where
\* the press found it
C35_Witness ==
    /\ lastEvent = "move"
    /\ isDragging /\ exceeded
    /\ pressPosition # << >>
    /\ pointer = interactionStartScreenPosition[1]
    /\ position = pressPosition[1]
    /\ viewport.width > DEFAULT_MAIN_BUTTON_SIZE

\* C30: the toggle lock is engaged exactly while its one release callback
\* is pending, never more than one callback is pending, an engaged lock is
\* released sooner or later (timers fire), and a release on the main
\* control with the lock released and the threshold not passed toggles the
\* menu and engages the lock again.
C30_ToggleLockLiveness ==
    /\ [](lockTimers <= 1 /\ (isToggleLocked <=> lockTimers = 1))
    /\ (isToggleLocked ~> ~isToggleLocked)
    /\ [][ (/\ lastEvent' \in MainControlReleases
            /\ revision = "unified"
            /\ ~isToggleLocked
            /\ ~hasMovedBeyondThreshold) =>
               (isOpen' # isOpen /\ isToggleLocked' /\ lockTimers' = 1) ]_vars

\* C30 witness: the timer released the lock, the menu still open from the
\* release that engaged it
C30_Witness ==
    /\ lastEvent = "lockTimeout"
    /\ before.isToggleLocked
    /\ ~isToggleLocked
    /\ lockTimers = 0
    /\ isOpen

-----------------------------------------------------------------------------
(* Properties of useDraggable with deferred effects, under SpecDeferred.    *)

\* C19: a move event delivered after the interaction's end event and before
\* a new start (the committed state is idle) changes neither the position
\* nor hasMovedBeyondThreshold, whether or not the effects of the end's
\* commit have run.
C19_LateMoveIgnored ==
    [][ (~isDragging /\ lastEvent' = "move") =>
            /\ position' = position
            /\ hasMovedBeyondThreshold' = hasMovedBeyondThreshold ]_vars

-----------------------------------------------------------------------------
(* Properties of the two hooks fed the same gestures, under SpecModality.   *)

\* C31: whatever sequence of presses, moves and releases has been delivered,
\* as primary-button mouse events to one unified hook and as single-touch
\* events to the other, the two hooks hold the same isDragging, the same
\* hasMovedBeyondThreshold and the same position after every event.
C31_ModalityIndependence ==
    instances # << >> =>
        /\ instances.mouse.isDragging = instances.touch.isDragging
        /\ instances.mouse.hasMovedBeyondThreshold =
               instances.touch.hasMovedBeyondThreshold
        /\ instances.mouse.position = instances.touch.position

\* both hooks have been dragged off their mount place by a move beyond the
\* threshold and then released
C31_Witness ==
    /\ instances # << >>
    /\ lastEvent = "releaseBoth"
    /\ ~instances.touch.isDragging
    /\ instances.touch.hasMovedBeyondThreshold
    /\ instances.mouse.hasMovedBeyondThreshold
    /\ instances.touch.position # position
    /\ instances.touch.interactionStartScreenPosition # << >>

-----------------------------------------------------------------------------
(* Properties of the stored placement, under SpecExposure.                  *)

\* C32: whenever the item positions RadialMenu renders from differ from the
\* placement of the current isOpen, centre, item count, radius, sizes and
\* window, they come to equal it; and once the menu is closed the stored
\* positions become empty, and an empty list stays empty for as long as the
\* menu stays closed.
C32_ExposureConsistency ==
    /\ (itemPositions # calculatedPositionsMemo)
           ~> (itemPositions = calculatedPositionsMemo)
    /\ (~isOpen) ~> (isOpen \/ itemPositions = << >>)
    /\ [][ (~isOpen /\ ~isOpen' /\ itemPositions = << >>)
               => itemPositions' = << >> ]_vars

\* the effect has emptied the stored positions of a menu that was closed
\* with its items placed
C32_Witness ==
    /\ lastEvent = "effect"
    /\ ~isOpen
    /\ itemPositions = << >>
    /\ numItems > 0 /\ orbitRadius > 0

-----------------------------------------------------------------------------
(* Properties of the mounted controller, under SpecMount.                   *)

-----------------------------------------------------------------------------
(* Properties of useDraggable given DOM events, under SpecEvents.           *)

\* the controller holds numbers only
NumericState ==
    /\ position.x # NotANumber /\ position.y # NotANumber
    /\ dragOffset.x # NotANumber /\ dragOffset.y # NotANumber
    /\ \/ interactionStartScreenPosition = << >>
       \/ /\ interactionStartScreenPosition[1].x # NotANumber
          /\ interactionStartScreenPosition[1].y # NotANumber

\* C21: a press whose event has no coordinates, or whose button is not the
\* primary one, is ignored: isDragging, the press origin, the offset,
\* hasMovedBeyondThreshold and the position stay as they were, and the
\* controller's state holds numbers only.
C21_MalformedStartIgnored ==
    [][ /\ lastEvent' \in {"mousedownOther", "touchstartMalformed"} =>
              UNCHANGED << isDragging, interactionStartScreenPosition,
                           dragOffset, hasMovedBeyondThreshold, position >>
        /\ NumericState' ]_vars

\* C22: after an accepted press (primary mouse button, or a touch that
\* began on the main control), from idle or while dragging, the press origin
\* is the point of the press, the offset is that point minus the control's
\* top-left, hasMovedBeyondThreshold is false and the controller is dragging.
C22_AcceptedStart ==
    [][ (lastEvent' \in AcceptedStarts) =>
            /\ interactionStartScreenPosition' = << pointer' >>
            /\ dragOffset' = [x |-> pointer'.x - position.x,
                              y |-> pointer'.y - position.y]
            /\ ~hasMovedBeyondThreshold'
            /\ isDragging' ]_vars

-----------------------------------------------------------------------------
(* Properties of the placement engine, under SpecPlacement.                 *)

\* the sample at or just before an angle given in slot units
SampleOf(angle) == (angle \div (2 * numItems)) % numAngleSamples

\* C6 as the specification states it: every returned angle lies where the
\* safety predicate holds: the sample at or just before it was classified
\* safe, so it is never at an unsafe sample, the one closing an arc included.
C6_EdgeAvoidance ==
    (lastEvent \in {"render", "toggle"} /\ numItems \in 1..MaxItems) =>
        \A k \in 1..Len(itemPositions) :
            isAngleSafe(SampleOf(itemPositions[k].angle), position,
                        orbitRadius, itemSize, DEFAULT_MAIN_BUTTON_SIZE,
                        viewport)

\* C13: a render of a closed menu, of a menu with no items, or with an orbit
\* radius of 0 or less stores the empty sequence, wherever the centre is and
\* whatever the window.
C13_EmptyWhenNothingToPlace ==
    (lastEvent \in {"render", "toggle"}
        /\ (~isOpen \/ numItems = 0 \/ orbitRadius <= 0)) =>
        itemPositions = << >>

\* C13 witness: an open menu with items in a roomy window rendered empty
\* because the orbit radius is negative
C13_Witness ==
    /\ lastEvent = "render"
    /\ isOpen /\ numItems > 0 /\ orbitRadius < 0
    /\ viewport.width > 2 * DEFAULT_ORBIT_RADIUS
    /\ itemPositions = << >>

\* no sampled angle of the current inputs is safe
NoSampleSafe ==
    \A i \in 0..(numAngleSamples - 1) :
        ~isAngleSafe(i, position, orbitRadius, itemSize,
                     DEFAULT_MAIN_BUTTON_SIZE, viewport)

\* C14: when none of the 180 sampled angles is safe, a render stores the
\* empty sequence, whatever the number of items.
C14_DegenerateSafety ==
    (lastEvent \in {"render", "toggle"} /\ NoSampleSafe) =>
        itemPositions = << >>

\* C14 witness: an open menu with items and a positive orbit radius, in a
\* window where no sample is safe, rendered empty
C14_Witness ==
    /\ lastEvent = "render"
    /\ isOpen /\ numItems = MaxItems /\ orbitRadius > 0
    /\ NoSampleSafe
    /\ itemPositions = << >>

\* every sampled angle of the current inputs is safe
AllSamplesSafe ==
    \A i \in 0..(numAngleSamples - 1) :
        isAngleSafe(i, position, orbitRadius, itemSize,
                    DEFAULT_MAIN_BUTTON_SIZE, viewport)

\* the angles of one call are kept in units of 2*PI / SlotsPerTurn
SlotsPerTurn == numAngleSamples * 2 * numItems

\* C15: when all 180 samples are safe, a render of an open menu of N items
\* stores N positions whose k-th angle, in ascending order, is
\* (k + 0.5) * 2*PI / N for k = 0..N-1.
C15_PlacementCoverage ==
    (lastEvent \in {"render", "toggle"} /\ isOpen /\ numItems >= 1
        /\ orbitRadius > 0 /\ AllSamplesSafe) =>
        /\ Len(itemPositions) = numItems
        /\ \A k \in 1..Len(itemPositions) :
              itemPositions[k].angle * 2 * numItems
                  = (2 * (k - 1) + 1) * SlotsPerTurn

\* C15 witness: six items on a fully safe orbit, at 30, 90, 150, 210, 270
\* and 330 degrees
C15_Witness ==
    /\ lastEvent \in {"render", "toggle"}
    /\ AllSamplesSafe
    /\ numItems = 6
    /\ Len(itemPositions) = 6
    /\ \A k \in 1..Len(itemPositions) :
          itemPositions[k].angle * 360 = (60 * (k - 1) + 30) * SlotsPerTurn

\* C16: the stored sequence is in ascending order of angle, every angle
\* normalized into [0, 2*PI), for every input.
C16_SortedByAngle ==
    (lastEvent \in {"render", "toggle"}) =>
        /\ \A k \in 1..Len(itemPositions) :
              /\ 0 <= itemPositions[k].angle
              /\ numItems > 0 => itemPositions[k].angle < SlotsPerTurn
        /\ \A k \in 1..(Len(itemPositions) - 1) :
              itemPositions[k].angle <= itemPositions[k + 1].angle

\* C16 witness: the safe arc wraps across the 0 / 2*PI seam, and the item
\* of index 0 is stored last, after items of larger index and smaller angle
C16_Witness ==
    /\ lastEvent \in {"render", "toggle"}
    /\ Len(itemPositions) >= 3
    /\ isAngleSafe(0, position, orbitRadius, itemSize,
                   DEFAULT_MAIN_BUTTON_SIZE, viewport)
    /\ isAngleSafe(numAngleSamples - 1, position, orbitRadius, itemSize,
                   DEFAULT_MAIN_BUTTON_SIZE, viewport)
    /\ ~AllSamplesSafe
    /\ itemPositions[Len(itemPositions)].index = 0
    /\ itemPositions[1].angle < itemPositions[Len(itemPositions)].angle

\* the samples the current inputs classify as safe
SafeSamples ==
    {i \in 0..(numAngleSamples - 1) :
        isAngleSafe(i, position, orbitRadius, itemSize,
                    DEFAULT_MAIN_BUTTON_SIZE, viewport)}

\* the safe arcs of the current inputs, after the merge, in sample units
CurrentArcs ==
    safeArcs(revision,
             safeAnglesInfo(position, orbitRadius, itemSize,
                            DEFAULT_MAIN_BUTTON_SIZE, viewport))

\* the samples an arc [start, end) covers
ArcSamples(arc) == {i % numAngleSamples : i \in arc.start..(arc.end - 1)}

\* C25: the safe arcs are exactly the maximal circular runs of safe samples,
\* each a half-open interval from its first safe sample to the unsafe sample
\* that closes it: they cover the safe samples and nothing else, are
\* pairwise disjoint, a run across the 0 / 2*PI seam is one arc whose end
\* is beyond 2*PI, an all-safe circle is the one arc [0, 2*PI), and the
\* lengths add up to the number of safe samples (times 2*PI/180).
C25_ArcDiscovery ==
    (isOpen /\ numItems >= 1 /\ orbitRadius > 0) =>
        LET arcs == CurrentArcs
        IN  /\ \A k \in 1..Len(arcs) :
                  /\ 0 <= arcs[k].start /\ arcs[k].start < numAngleSamples
                  /\ arcs[k].start < arcs[k].end
                  /\ arcs[k].length = arcs[k].end - arcs[k].start
                  /\ arcs[k].length <= numAngleSamples
                  /\ \/ SafeSamples = 0..(numAngleSamples - 1)
                     \/ /\ ((arcs[k].start - 1) % numAngleSamples)
                               \notin SafeSamples
                        /\ (arcs[k].end % numAngleSamples) \notin SafeSamples
            /\ UNION {ArcSamples(arcs[k]) : k \in 1..Len(arcs)} = SafeSamples
            /\ \A j, k \in 1..Len(arcs) :
                  j # k => ArcSamples(arcs[j]) \cap ArcSamples(arcs[k]) = {}
            /\ totalSafeAngleLength(arcs) = Cardinality(SafeSamples)
            /\ SafeSamples = 0..(numAngleSamples - 1) =>
                  arcs = << [start |-> 0, end |-> numAngleSamples,
                             length |-> numAngleSamples] >>

\* C25 witness: a render placed the items where the first and the last
\* sample are safe and some sample is not, and the run across the seam is
\* one arc that ends beyond 2*PI
C25_Witness ==
    /\ lastEvent \in {"render", "toggle"}
    /\ isOpen /\ numItems >= 1 /\ orbitRadius > 0
    /\ Len(itemPositions) = numItems
    /\ 0 \in SafeSamples /\ (numAngleSamples - 1) \in SafeSamples
    /\ SafeSamples # 0..(numAngleSamples - 1)
    /\ \E k \in 1..Len(CurrentArcs) :
          /\ CurrentArcs[k].end > numAngleSamples
          /\ CurrentArcs[k].start > 0

\* the current safe arcs in ascending order of start
ArcsByStart ==
    LET arcs == CurrentArcs
        rank(k) == 1 + Cardinality({j \in 1..Len(arcs) :
                                       arcs[j].start < arcs[k].start})
    IN  [r \in 1..Len(arcs) |-> arcs[CHOOSE k \in 1..Len(arcs) : rank(k) = r]]

\* the total length of the arcs before the k-th, in sample units
PrecedingLength(arcs, k) == totalSafeAngleLength(SubSeq(arcs, 1, k - 1))

\* the angle the distribution rule gives item index i, in slot units: the
\* target (i + 0.5) * total / N is (2i + 1) * total slot units, and an arc
\* of n samples is 2 * N * n slot units long
DistributedAngle(i) ==
    LET arcs == ArcsByStart
        target == (2 * i + 1) * totalSafeAngleLength(arcs)
        holds(k) ==
            /\ 2 * numItems * PrecedingLength(arcs, k) <= target
            /\ target <= 2 * numItems * PrecedingLength(arcs, k + 1)
        first == CHOOSE k \in 1..Len(arcs) :
                     holds(k) /\ \A j \in 1..(k - 1) : ~holds(j)
    IN  (2 * numItems * arcs[first].start
            + (target - 2 * numItems * PrecedingLength(arcs, first)))
        % SlotsPerTurn

C27_ItemCorrespondence ==
    (lastEvent \in {"render", "toggle"}) =>
        \A k \in 1..Len(itemPositions) : itemPositions[k].index = k - 1

\* C28: an open menu of N >= 1 items with a positive orbit radius and at
\* least one safe sample gets exactly N positions, one for every item
\* index, and the walk of the arcs finds an arc for every item, so the
\* fallback placement is not used.
C28_PlacementCardinality ==
    (lastEvent \in {"render", "toggle"} /\ isOpen /\ numItems >= 1
        /\ orbitRadius > 0 /\ SafeSamples # {}) =>
        /\ Len(itemPositions) = numItems
        /\ {itemPositions[k].index : k \in 1..Len(itemPositions)}
              = 0..(numItems - 1)
        /\ \A i \in 0..(numItems - 1) :
              FindArc(revision, SortArcs(CurrentArcs), 1, 0,
                      (2 * i + 1) * totalSafeAngleLength(CurrentArcs),
                      numItems) # -1

\* C28 witness: the largest menu placed in full on a short arc in the corner
\* of a window
C28_Witness ==
    /\ lastEvent \in {"render", "toggle"}
    /\ isOpen /\ numItems = MaxItems
    /\ Len(CurrentArcs) = 1
    /\ Cardinality(SafeSamples) < numAngleSamples \div 2
    /\ Len(itemPositions) = MaxItems

====
